---- MODULE Spec2Model ----
(***************************************************************************)
(* A model of chess.py: the pieces' move generation, the notation parser   *)
(* and the Board's move / castle operations.  Python objects that are      *)
(* shared by reference (the pieces dict and the moves list of a Board)     *)
(* live in two heaps, so that aliasing between boards is expressible.      *)
(***************************************************************************)
EXTENDS Integers, Sequences, FiniteSets, TLC

VARIABLES
    dicts,   \* heap of dict objects: each a function Position -> Piece
    lists,   \* heap of list objects: each a sequence of <<Color, Move|Castle>>
    boards,  \* the Board objects the caller holds: [pieces |-> ref, moves |-> ref]
    last,    \* the last call of Board.move: its arguments and how it ended
    gen,     \* the last call of Piece.possible_moves: its arguments and result
    parse,   \* the last call of parse_move: its argument and result
    applied  \* applied[i]: how many calls of move succeeded on the way from
             \* the initial board to boards[i] (a history variable)

vars == <<dicts, lists, boards, last, gen, parse, applied>>

-----------------------------------------------------------------------------
(* Bounds of the model. *)

\* How many Board objects the caller holds at most.
MaxBoards == 3

\* How many pieces stand on a board besides the one whose moves are generated.
MaxOthers == 2

\* How long the arbitrary texts given to parse_move are at most.
MaxText == 4

-----------------------------------------------------------------------------
(* Colours, pieces, positions. *)

Black == "Black"
White == "White"
Color == {Black, White}

opponent(color) == IF color = White THEN Black ELSE White

\* Python's None, as the result of dict.get.
None == [name |-> "None", color |-> "None"]

Piece(name, color) == [name |-> name, color |-> color]
Pawn(color) == Piece("P", color)
Rook(color) == Piece("R", color)
Knight(color) == Piece("N", color)
Bishop(color) == Piece("B", color)
King(color) == Piece("K", color)
Queen(color) == Piece("Q", color)

PieceNames == {"P", "R", "N", "B", "K", "Q"}

\* The squares of the board, as (file, rank).
Squares == (0..7) \X (0..7)

is_out_of_bounds(position) ==
    \E i \in 1..2 : ~(0 <= position[i] /\ position[i] < 8)

get_piece_at(pieces, position) ==
    IF position \in DOMAIN pieces THEN pieces[position] ELSE None

\* A blocking test that never finds a piece in the way.
is_blocked_never(pieces, color, position) == FALSE

is_blocked(pieces, color, position) ==
    LET piece == get_piece_at(pieces, position)
    IN  piece # None /\ piece.color = color

-----------------------------------------------------------------------------
(* Move generation. *)

straight_moves == << <<1, 0>>, <<-1, 0>>, <<0, 1>>, <<0, -1>> >>
diagonal_moves == << <<1, 1>>, <<1, -1>>, <<-1, 1>>, <<-1, -1>> >>

\* One direction function applied to i.
Dir(df, i) == <<df[1] * i, df[2] * i>>

\* The inner loop of filter_moves from index i on: the squares it appends.
RECURSIVE ray_no_break(_, _, _, _, _)
ray_no_break(position, color, df, pieces, i) ==
    IF i > 7 THEN {}
    ELSE LET d == Dir(df, i)
             pos == <<position[1] + d[1], position[2] + d[2]>>
             piece == get_piece_at(pieces, pos)
         IN  IF pos = position \/ is_out_of_bounds(pos)
             THEN ray_no_break(position, color, df, pieces, i + 1)
             ELSE IF piece # None
                  THEN (IF piece.color # color THEN {pos} ELSE {})
                       \cup ray_no_break(position, color, df, pieces, i + 1)
                  ELSE {pos} \cup ray_no_break(position, color, df, pieces, i + 1)

RECURSIVE ray(_, _, _, _, _)
ray(position, color, df, pieces, i) ==
    IF i > 7 THEN {}
    ELSE LET d == Dir(df, i)
             pos == <<position[1] + d[1], position[2] + d[2]>>
             piece == get_piece_at(pieces, pos)
         IN  IF pos = position \/ is_out_of_bounds(pos)
             THEN ray(position, color, df, pieces, i + 1)
             ELSE IF piece # None
                  THEN (IF piece.color # color THEN {pos} ELSE {})
                  ELSE {pos} \cup ray(position, color, df, pieces, i + 1)

filter_moves(position, color, direction_fns, pieces) ==
    UNION { ray(position, color, direction_fns[k], pieces, 0) :
            k \in DOMAIN direction_fns }

has_moved(color, position) ==
    IF color = Black /\ position[2] = 1 THEN FALSE
    ELSE IF position[2] = 6 THEN FALSE
    ELSE TRUE

\* A pawn whose two-square advance does not depend on the square in front.
pawn_moves_jumping(color, position, pieces) ==
    LET direction == IF color = Black THEN 1 ELSE -1
        x == position[1]
        y == position[2]
        forward ==
            (IF get_piece_at(pieces, <<x, y + direction>>) = None
             THEN {<<x, y + direction>>} ELSE {})
            \cup (IF ~has_moved(color, position)
                  THEN {<<x, y + direction * 2>>} ELSE {})
        capture_moves == { <<x + direction, y + direction>>,
                           <<x - direction, y + direction>> }
        captures == { m \in capture_moves :
                        LET piece == get_piece_at(pieces, m)
                        IN  piece # None /\ piece.color # color }
    IN  forward \cup captures

pawn_moves(color, position, pieces) ==
    LET direction == IF color = Black THEN 1 ELSE -1
        x == position[1]
        y == position[2]
        forward ==
            IF get_piece_at(pieces, <<x, y + direction>>) = None
            THEN {<<x, y + direction>>}
                 \cup (IF ~has_moved(color, position)
                       THEN {<<x, y + direction * 2>>} ELSE {})
            ELSE {}
        capture_moves == { <<x + direction, y + direction>>,
                           <<x - direction, y + direction>> }
        captures == { m \in capture_moves :
                        LET piece == get_piece_at(pieces, m)
                        IN  piece # None /\ piece.color # color }
    IN  forward \cup captures

knight_moves(color, position, pieces) ==
    LET x == position[1]
        y == position[2]
        all_moves == { <<x - 1, y - 2>>, <<x + 1, y - 2>>, <<x + 2, y - 1>>,
                       <<x + 2, y + 1>>, <<x + 1, y + 2>>, <<x - 1, y + 2>>,
                       <<x - 2, y - 1>>, <<x - 2, y + 1>> }
    IN  { m \in all_moves : ~is_out_of_bounds(m) /\ ~is_blocked(pieces, color, m) }

king_moves(color, position, pieces) ==
    LET fns == straight_moves \o diagonal_moves
        all_moves == { <<position[1] + Dir(fns[k], 1)[1],
                         position[2] + Dir(fns[k], 1)[2]>> : k \in DOMAIN fns }
    IN  { m \in all_moves : ~is_out_of_bounds(m) /\ ~is_blocked(pieces, color, m) }

\* piece.possible_moves(position, board), by the piece's class.
possible_moves(piece, position, pieces) ==
    CASE piece.name = "P" -> pawn_moves(piece.color, position, pieces)
      [] piece.name = "R" ->
            filter_moves(position, piece.color, straight_moves, pieces)
      [] piece.name = "N" -> knight_moves(piece.color, position, pieces)
      [] piece.name = "B" ->
            filter_moves(position, piece.color, diagonal_moves, pieces)
      [] piece.name = "K" -> king_moves(piece.color, position, pieces)
      [] piece.name = "Q" ->
            filter_moves(position, piece.color,
                         diagonal_moves \o straight_moves, pieces)

\* An attack check that never finds an attacker.
is_attacked_by_nobody(pieces, color, position) == FALSE

is_attacked_by(pieces, color, position) ==
    \E pos \in DOMAIN pieces :
        /\ pieces[pos].color = color
        /\ position \in possible_moves(pieces[pos], pos, pieces)

-----------------------------------------------------------------------------
(* The notation parser.  A move text is a sequence of characters. *)

\* Move and Castle, the two dataclasses parse_move returns.
Move(name, dest) == [name |-> name, dest |-> dest]
Castle(kingside) == [kingside |-> kingside]
isCastle(m) == "kingside" \in DOMAIN m

\* str.index for a character that occurs in the string, counted from 0.
index(str, ch) == (CHOOSE k \in DOMAIN str : str[k] = ch) - 1

piece_letters == {"Q", "R", "N", "B", "K"}
\* The rank digits in ascending order.
files_ascending == <<"1", "2", "3", "4", "5", "6", "7", "8">>

files == <<"8", "7", "6", "5", "4", "3", "2", "1">>
ranks == <<"a", "b", "c", "d", "e", "f", "g", "h">>
Chars(str) == { str[k] : k \in DOMAIN str }

\* The result of parse_move: [ok |-> TRUE, m |-> a Move or a Castle], or
\* [ok |-> FALSE] when it raises InvalidMoveError("Invalid move: ...").
parse_move(move) ==
    IF move = <<"0", "-", "0">> \/ move = <<"0", "-", "0", "-", "0">>
    THEN [ok |-> TRUE, m |-> Castle(move = <<"0", "-", "0">>)]
    ELSE \* re.match("(Q|R|N|B|K?)x?([a-h])([1-8])", move): anchored at the
         \* start only; whatever follows the rank digit is not looked at.
         LET hasPiece == Len(move) >= 1 /\ move[1] \in piece_letters
             a == IF hasPiece THEN 2 ELSE 1
             hasX == Len(move) >= a /\ move[a] = "x"
             b == IF hasX THEN a + 1 ELSE a
             match == /\ Len(move) >= b + 1
                      /\ move[b] \in Chars(ranks)
                      /\ move[b + 1] \in Chars(files)
         IN  IF ~match THEN [ok |-> FALSE]
             ELSE [ok |-> TRUE,
                   m |-> Move(IF hasPiece THEN move[1] ELSE "P",
                              <<index(ranks, move[b]), index(files, move[b + 1])>>)]

-----------------------------------------------------------------------------
(* The Board: castling. *)

\* color.Black: an attribute lookup on an enum member gives the member
\* Color.Black, whatever member color is; members of a plain Enum are truthy.
color_Black(color) == Black
truthy(member) == TRUE

\* rank = 0 if color.Black else 7
castle_rank(color) == IF truthy(color_Black(color)) THEN 0 ELSE 7

\* The loop over self.moves of can_castle from entry k on: "True" when it runs
\* to its end, "False" when it returns False, "AttributeError" when it reads
\* move.name of a Castle.  The loop variable color shadows the parameter, so
\* the test color == color compares the entry's colour with itself.
RECURSIVE scan_moves(_, _, _)
scan_moves(moves, k, original_rook_position) ==
    IF k > Len(moves) THEN "True"
    ELSE LET color == moves[k][1]
             move == moves[k][2]
         IN  IF color = color
             THEN IF "name" \notin DOMAIN move THEN "AttributeError"
                  ELSE IF move.name = "K" THEN "False"
                  ELSE IF move.dest = original_rook_position THEN "False"
                  ELSE scan_moves(moves, k + 1, original_rook_position)
             ELSE scan_moves(moves, k + 1, original_rook_position)

\* "True", "False" or "AttributeError".
can_castle(pieces, moves, color, kingside) ==
    LET rank == castle_rank(color)
        free_files == IF kingside THEN {5, 6} ELSE {1, 2, 3}
        not_attacked_files == IF kingside THEN {4, 5, 6, 7} ELSE {0, 1, 2, 3, 4}
        original_rook_position == <<IF kingside THEN 7 ELSE 0, rank>>
    IN  IF \E file \in free_files : get_piece_at(pieces, <<file, rank>>) # None
        THEN "False"
        ELSE IF \E file \in not_attacked_files :
                    is_attacked_by(pieces, opponent(color), <<file, rank>>)
        THEN "False"
        ELSE IF get_piece_at(pieces, original_rook_position) # Rook(Black)
        THEN "False"
        ELSE scan_moves(moves, 1, original_rook_position)

-----------------------------------------------------------------------------
(* The Board: applying a move.  Operations that build objects take the     *)
(* heaps and return them with the new objects added.                       *)

\* What a call returns: the heaps after it, and either the exception raised
\* (exc, msg) or, with exc = "", the new Board.
NoBoard == [pieces |-> 0, moves |-> 0]
Raise(ds, ls, exc, msg) ==
    [exc |-> exc, msg |-> msg, dicts |-> ds, lists |-> ls, board |-> NoBoard]
Return(ds, ls, board) ==
    [exc |-> "", msg |-> "", dicts |-> ds, lists |-> ls, board |-> board]

\* d[dest] = d[src], the source key left in place.
relocate_keeping_src(d, src, dest) ==
    [p \in DOMAIN d \cup {dest} |-> IF p = dest THEN d[src] ELSE d[p]]

\* dict after  d[dest] = d.pop(src)
relocate(d, src, dest) ==
    [p \in (DOMAIN d \ {src}) \cup {dest} |-> IF p = dest THEN d[src] ELSE d[p]]

\* A move_piece that works on the dict it is given instead of a copy.
move_piece_in_place(ds, pieces, src, dest) ==
    IF src \notin DOMAIN ds[pieces] THEN [dicts |-> ds, ref |-> 0]
    ELSE [dicts |-> [ds EXCEPT ![pieces] = relocate(ds[pieces], src, dest)],
          ref |-> pieces]

\* Board.move_piece: ref is the new dict, or 0 when pop raises KeyError.
move_piece(ds, pieces, src, dest) ==
    IF src \notin DOMAIN ds[pieces] THEN [dicts |-> ds, ref |-> 0]
    ELSE [dicts |-> Append(ds, relocate(ds[pieces], src, dest)),
          ref |-> Len(ds) + 1]

\* A copy of self.moves with nothing added.
moves_plus_nothing(ls, moves, color, move) ==
    [lists |-> Append(ls, ls[moves]), ref |-> Len(ls) + 1]

\* self.moves + [(color, move)]: a new list.
moves_plus(ls, moves, color, move) ==
    [lists |-> Append(ls, Append(ls[moves], <<color, move>>)),
     ref |-> Len(ls) + 1]

\* Board(pieces=..., moves=...) for a non-empty dict and a non-empty list:
\* the object keeps the two references it is given.
Board(pieces, moves) == [pieces |-> pieces, moves |-> moves]

\* return Board(pieces=pieces, moves=self.moves + [(color, move)])
new_board(p, mv) == Return(p.dicts, mv.lists, Board(p.ref, mv.ref))

\* castle, once can_castle has answered and the king has been moved.
castle_rook(ds, ls, self, color, move, p1) ==
    LET kingside == move.kingside
        rank == castle_rank(color)
        original_rook_position == <<IF kingside THEN 7 ELSE 0, rank>>
        new_rook_position == <<IF kingside THEN 5 ELSE 3, rank>>
    IN  IF p1.ref = 0 THEN Raise(ds, ls, "KeyError", "(4, 0)")
        ELSE new_board(move_piece(p1.dicts, p1.ref, original_rook_position,
                                  new_rook_position),
                       moves_plus(ls, self.moves, color, move))

castle_can(ds, ls, self, color, move, can) ==
    LET kingside == move.kingside
        rank == castle_rank(color)
        original_king_position == <<4, rank>>
        new_king_position == <<IF kingside THEN 6 ELSE 2, rank>>
    IN  IF can = "AttributeError"
        THEN Raise(ds, ls, "AttributeError", "'Castle' object has no attribute 'name'")
        ELSE IF can = "False"
        THEN Raise(ds, ls, "InvalidMoveError", "Can't castle from this position")
        ELSE castle_rook(ds, ls, self, color, move,
                         move_piece(ds, self.pieces, original_king_position,
                                    new_king_position))

\* Board.castle(color, move)
castle(ds, ls, self, color, move) ==
    castle_can(ds, ls, self, color, move,
               can_castle(ds[self.pieces], ls[self.moves], color, move.kingside))

matching_positions(pieces, color, m) ==
    { pos \in DOMAIN pieces :
        /\ pieces[pos].color = color
        /\ pieces[pos].name = m.name
        /\ m.dest \in possible_moves(pieces[pos], pos, pieces) }

\* A move that takes any matching position instead of requiring exactly one.
move_matching_any(ds, ls, self, color, m, matching) ==
    IF matching = {}
    THEN Raise(ds, ls, "InvalidMoveError", "No matching piece found")
    ELSE new_board(move_piece(ds, self.pieces, CHOOSE pos \in matching : TRUE,
                              m.dest),
                   moves_plus(ls, self.moves, color, m))

\* Board.move for a Move m, once the matching positions are collected.
move_matching(ds, ls, self, color, m, matching) ==
    IF matching = {}
    THEN Raise(ds, ls, "InvalidMoveError", "No matching piece found")
    ELSE IF Cardinality(matching) # 1
    THEN Raise(ds, ls, "InvalidMoveError", "Ambiguous move")
    ELSE new_board(move_piece(ds, self.pieces, CHOOSE pos \in matching : TRUE,
                              m.dest),
                   moves_plus(ls, self.moves, color, m))

move_parsed(ds, ls, self, color, parsed) ==
    IF ~parsed.ok THEN Raise(ds, ls, "InvalidMoveError", "Invalid move")
    ELSE IF isCastle(parsed.m) THEN castle(ds, ls, self, color, parsed.m)
    ELSE move_matching(ds, ls, self, color, parsed.m,
                       matching_positions(ds[self.pieces], color, parsed.m))

\* Board.move(color, move)
move(ds, ls, self, color, text) ==
    move_parsed(ds, ls, self, color, parse_move(text))

-----------------------------------------------------------------------------
(* The positions and the move texts the model starts from and calls with. *)

\* A pieces dict from a set of <<position, piece>> pairs.
Dict(items) ==
    [p \in { e[1] : e \in items } |-> (CHOOSE e \in items : e[1] = p)[2]]

CastlingPieces ==
    { <<<<0, 0>>, Rook(Black)>>, <<<<4, 0>>, King(Black)>>, <<<<7, 0>>, Rook(Black)>> }

\* The positions a game of the model starts from.
GamePieces ==
    { Dict(CastlingPieces),
      Dict({ <<<<4, 7>>, King(White)>>, <<<<7, 7>>, Rook(White)>> }),
      Dict(CastlingPieces \cup { <<<<4, 7>>, King(White)>> }),
      Dict({ <<<<0, 0>>, Rook(Black)>>, <<<<1, 0>>, Bishop(Black)>>,
             <<<<4, 0>>, King(Black)>> }),
      Dict({ <<<<0, 0>>, Rook(Black)>>, <<<<1, 0>>, Bishop(White)>>,
             <<<<4, 0>>, King(Black)>> }),
      Dict({ <<<<4, 0>>, King(Black)>>, <<<<7, 0>>, Rook(Black)>>,
             <<<<7, 2>>, Rook(White)>> }),
      Dict({ <<<<0, 0>>, Rook(Black)>>, <<<<7, 0>>, Rook(Black)>> }),
      Dict({ <<<<2, 6>>, Pawn(White)>> }),
      Dict({ <<<<0, 0>>, Rook(Black)>>, <<<<0, 6>>, Pawn(White)>> }) }

StandardTexts(names, fileLetters, rankDigits) ==
    { IF n = "P" THEN <<f, r>> ELSE <<n, f, r>> :
        n \in names, f \in fileLetters, r \in rankDigits }

CastleTexts == { <<"0", "-", "0">>, <<"0", "-", "0", "-", "0">> }

\* The texts a game of the model calls move with.
GameTexts ==
    CastleTexts
    \cup StandardTexts({"K"}, {"e", "h"}, {"8", "7"})
    \cup StandardTexts({"R"}, {"a", "h"}, {"8", "7"})
    \cup { <<"K", "e", "2">>, <<"c", "3">>, <<"R", "x", "a", "2">>, <<"e", "9">> }

\* The default position of Board(), as chess.py lists it.
StartPieces ==
    Dict({ <<<<0, 0>>, Rook(Black)>>, <<<<1, 0>>, Knight(Black)>>,
           <<<<2, 0>>, Bishop(Black)>>, <<<<3, 0>>, Queen(Black)>>,
           <<<<4, 0>>, King(Black)>>, <<<<5, 0>>, Knight(Black)>>,
           <<<<6, 0>>, Bishop(Black)>>, <<<<7, 0>>, Rook(Black)>>,
           <<<<0, 6>>, Pawn(Black)>>,
           <<<<0, 7>>, Rook(White)>>, <<<<1, 7>>, Knight(White)>>,
           <<<<2, 7>>, Bishop(White)>>, <<<<3, 7>>, Queen(White)>>,
           <<<<4, 7>>, King(White)>>, <<<<5, 7>>, Knight(White)>>,
           <<<<6, 7>>, Bishop(White)>>, <<<<7, 7>>, Rook(White)>> }
         \cup { <<<<x, 1>>, Pawn(Black)>> : x \in 0..7 }
         \cup { <<<<x, 6>>, Pawn(White)>> : x \in 1..7 })

\* King and one rook of one colour on the rank that colour starts on.
KingAndRook(color, kingside) ==
    LET rank == IF color = Black THEN 0 ELSE 7
    IN  Dict({ <<<<4, rank>>, King(color)>>,
               <<<<IF kingside THEN 7 ELSE 0, rank>>, Rook(color)>> })

\* The positions single calls of move are tried on.
CallPieces ==
    GamePieces
    \cup { KingAndRook(c, k) : c \in Color, k \in BOOLEAN }
    \cup { Dict({}),
           Dict({ <<<<0, 0>>, Rook(Black)>>, <<<<3, 0>>, Pawn(Black)>>,
                  <<<<0, 4>>, Rook(White)>> }),
           Dict({ <<<<1, 0>>, Knight(Black)>>, <<<<3, 1>>, Pawn(Black)>> }),
           Dict({ <<<<1, 0>>, Knight(Black)>>, <<<<5, 0>>, Knight(Black)>> }),
           Dict({ <<<<2, 2>>, Knight(Black)>>, <<<<2, 5>>, Bishop(White)>>,
                  <<<<5, 5>>, Queen(White)>>, <<<<5, 2>>, Queen(Black)>> }),
           Dict({ <<<<3, 1>>, Pawn(Black)>>, <<<<2, 2>>, Pawn(White)>>,
                  <<<<4, 2>>, Pawn(White)>> }),
           Dict({ <<<<3, 6>>, Pawn(White)>>, <<<<2, 5>>, Pawn(Black)>>,
                  <<<<4, 5>>, Pawn(Black)>>, <<<<3, 4>>, Pawn(Black)>> }),
           Dict({ <<<<4, 0>>, Queen(Black)>>, <<<<7, 0>>, Rook(Black)>> }),
           Dict({ <<<<0, 0>>, Rook(Black)>>, <<<<4, 0>>, Knight(White)>> }),
           Dict({ <<<<3, 1>>, Pawn(Black)>>, <<<<3, 3>>, Pawn(Black)>> }),
           Dict({ <<<<3, 1>>, Pawn(Black)>>, <<<<3, 3>>, Pawn(White)>> }) }

\* The texts single calls of move are tried with: every standard move, with
\* and without the capture marker, the two castles and some other texts.
CallTexts ==
    CastleTexts
    \cup StandardTexts(PieceNames, Chars(ranks), Chars(files))
    \cup { <<n, "x", f, r>> : n \in piece_letters, f \in Chars(ranks),
                              r \in Chars(files) }
    \cup { <<>>, <<"e", "9">>, <<"P", "e", "4">>, <<"x", "e", "4">>,
           <<"e", "4", "+">>, <<"0", "-", "0", " ">>, <<"K", "e">> }

\* The positions move generation is tried on: one piece of any kind and
\* colour on one of SubjectSquares, and up to MaxOthers pawns around it.
SubjectSquares ==
    { <<0, 0>>, <<3, 0>>, <<3, 1>>, <<3, 3>>, <<3, 6>>, <<3, 7>>, <<7, 4>> }
OtherSquares ==
    { <<3, 2>>, <<3, 3>>, <<2, 2>>, <<4, 2>>, <<3, 5>>, <<3, 4>>, <<2, 5>>, <<4, 5>> }
OtherItems == { <<sq, Pawn(c)>> : sq \in OtherSquares, c \in Color }

RECURSIVE OthersUpTo(_)
OthersUpTo(n) ==
    IF n = 0 THEN { {} }
    ELSE LET fewer == OthersUpTo(n - 1)
         IN  fewer \cup UNION { { S \cup {e} :
                                      e \in { i \in OtherItems :
                                                \A o \in S : o[1] # i[1] } } :
                                  S \in fewer }

GenPieces ==
    { Dict({ <<sq, Piece(n, c)>> } \cup { o \in others : o[1] # sq }) :
        sq \in SubjectSquares, n \in PieceNames, c \in Color,
        others \in OthersUpTo(MaxOthers) }

-----------------------------------------------------------------------------
(* The state machine: a caller that holds boards and calls move on them. *)

NoCall == [recv |-> 0, color |-> "", text |-> <<>>, exc |-> "", msg |-> "",
           board |-> NoBoard]
NoGen == [position |-> <<>>, moves |-> {}]
NoParse == [text |-> <<>>, result |-> [ok |-> FALSE], called |-> FALSE]

\* Board(pieces): the constructor with no moves makes a new empty list; it
\* keeps the dict it is given unless that is empty (pieces or {...}), and
\* then makes the default dict, a new object.
InitWith(pieces) ==
    /\ dicts = IF DOMAIN pieces = {} THEN <<pieces, StartPieces>> ELSE <<pieces>>
    /\ lists = << <<>> >>
    /\ boards = << Board(IF DOMAIN pieces = {} THEN 2 ELSE 1, 1) >>
    /\ last = NoCall
    /\ gen = NoGen
    /\ parse = NoParse
    /\ applied = <<0>>

Init == \E pieces \in GamePieces : InitWith(pieces)

\* boards[i].move(color, text): the call and how it ends.
BoardMove(i, color, text) ==
    /\ last = NoCall
    /\ \E r \in { move(dicts, lists, boards[i], color, text) } :
        /\ r.exc = "" => Len(boards) < MaxBoards
        /\ dicts' = r.dicts
        /\ lists' = r.lists
        /\ last' = [recv |-> i, color |-> color, text |-> text,
                    exc |-> r.exc, msg |-> r.msg, board |-> r.board]
    /\ UNCHANGED <<boards, gen, parse, applied>>

\* The caller keeps the board the call returned.
Keep ==
    /\ last # NoCall
    /\ last.exc = ""
    /\ boards' = Append(boards, last.board)
    /\ applied' = Append(applied, applied[last.recv] + 1)
    /\ last' = NoCall
    /\ UNCHANGED <<dicts, lists, gen, parse>>

\* The caller catches the exception the call raised.
Catch ==
    /\ last # NoCall
    /\ last.exc # ""
    /\ last' = NoCall
    /\ UNCHANGED <<dicts, lists, boards, gen, parse, applied>>

Next ==
    \/ \E i \in DOMAIN boards, color \in Color, text \in GameTexts :
            BoardMove(i, color, text)
    \/ Keep
    \/ Catch

Spec == Init /\ [][Next]_vars

\* Single calls: move is called on the initial board only.
InitCall == \E pieces \in CallPieces : InitWith(pieces)

NextCall ==
    \/ \E color \in Color, text \in CallTexts :
            Len(boards) = 1 /\ BoardMove(1, color, text)
    \/ Keep
    \/ Catch

SpecCall == InitCall /\ [][NextCall]_vars

\* Move generation: possible_moves is called for a piece of the board.
InitGen == \E pieces \in GenPieces : InitWith(pieces)

\* boards[i].get_piece_at(position).possible_moves(position, boards[i])
PossibleMoves(i, position) ==
    /\ gen' = [position |-> position,
               moves |-> possible_moves(dicts[boards[i].pieces][position],
                                        position, dicts[boards[i].pieces])]
    /\ UNCHANGED <<dicts, lists, boards, last, parse, applied>>

NextGen ==
    \E position \in DOMAIN dicts[boards[1].pieces] : PossibleMoves(1, position)

SpecGen == InitGen /\ [][NextGen]_vars

\* Parsing: parse_move is called with one text.
ParseChars == {"0", "-", "K", "P", "x", "a", "1", "9"}

\* The texts parse_move is tried with: every text of the move grammar, the
\* texts of the single calls, and every text of up to MaxText characters of
\* ParseChars.
ParseTexts ==
    CallTexts
    \cup { <<"x", f, r>> : f \in Chars(ranks), r \in Chars(files) }
    \cup UNION { [1..n -> ParseChars] : n \in 0..MaxText }

InitParse ==
    /\ \E text \in ParseTexts :
          parse = [text |-> text, result |-> [ok |-> FALSE], called |-> FALSE]
    /\ dicts = <<>>
    /\ lists = <<>>
    /\ boards = <<>>
    /\ last = NoCall
    /\ gen = NoGen
    /\ applied = <<>>

\* parse_move(text)
ParseMove ==
    /\ ~parse.called
    /\ parse' = [parse EXCEPT !.result = parse_move(parse.text), !.called = TRUE]
    /\ UNCHANGED <<dicts, lists, boards, last, gen, applied>>

NextParse == ParseMove

SpecParse == InitParse /\ [][NextParse]_vars

-----------------------------------------------------------------------------
(* What the properties below speak of. *)

\* The pieces and the history of the i-th board the caller holds.
PiecesOf(board) == dicts[board.pieces]
HistoryOf(board) == lists[board.moves]

\* The call that has just ended, its receiver and its parsed text.
Called == last # NoCall
Receiver == boards[last.recv]
Intent == parse_move(last.text)
Returned == Called /\ last.exc = ""
StandardCall == Called /\ Intent.ok /\ ~isCastle(Intent.m)
CastleCall == Called /\ Intent.ok /\ isCastle(Intent.m)

\* The four errors of the legality taxonomy, as chess.py raises them.
InvalidNotation == last.exc = "InvalidMoveError" /\ last.msg = "Invalid move"
NoMatchingPiece ==
    last.exc = "InvalidMoveError" /\ last.msg = "No matching piece found"
AmbiguousMove == last.exc = "InvalidMoveError" /\ last.msg = "Ambiguous move"
IllegalCastle ==
    last.exc = "InvalidMoveError" /\ last.msg = "Can't castle from this position"

\* The candidate set of a standard call: the squares holding a piece of the
\* mover's colour and of the requested kind that generates the destination.
CandidatesOf(pieces, color, m) ==
    { pos \in DOMAIN pieces :
        /\ pieces[pos] = Piece(m.name, color)
        /\ m.dest \in possible_moves(pieces[pos], pos, pieces) }
Candidates == CandidatesOf(PiecesOf(Receiver), last.color, Intent.m)

-----------------------------------------------------------------------------
(* C1: no step changes a board the caller holds: the pieces dict and the   *)
(* moves list of every held board are after the step what they were before *)
(* it, whether the call returned a board or raised.                        *)
C1_MoveNeverMutates ==
    [][\A i \in DOMAIN boards :
          /\ boards'[i] = boards[i]
          /\ dicts'[boards[i].pieces] = dicts[boards[i].pieces]
          /\ lists'[boards[i].moves] = lists[boards[i].moves]]_vars

\* Two different moves were applied to the first board, and a third call on
\* it has just failed.
C1_Witness ==
    /\ Len(boards) = 3
    /\ Len(HistoryOf(boards[2])) = 1
    /\ Len(HistoryOf(boards[3])) = 1
    /\ HistoryOf(boards[2]) # HistoryOf(boards[3])
    /\ Called /\ last.recv = 1 /\ last.exc # ""

Relocated(old, new, src, dest) ==
    /\ get_piece_at(new, dest) = get_piece_at(old, src)
    /\ get_piece_at(new, src) = None
    /\ \A sq \in Squares \ {src, dest} :
          get_piece_at(new, sq) = get_piece_at(old, sq)

C2_Holds(cands, m) ==
    Cardinality(cands) = 1 =>
        /\ Returned
        /\ get_piece_at(PiecesOf(last.board), m.dest) = Piece(m.name, last.color)
        /\ Relocated(PiecesOf(Receiver), PiecesOf(last.board),
                     CHOOSE pos \in cands : TRUE, m.dest)
        /\ HistoryOf(last.board)
             = Append(HistoryOf(Receiver), <<last.color, m>>)

(* C2: after a standard call with exactly one candidate, the board returned *)
(* has the moving piece on the destination, nothing on the origin, every    *)
(* other square as the receiver has it, and the receiver's history with     *)
(* (color, intent) appended.                                                *)
C2_StandardMoveRelocates ==
    StandardCall => C2_Holds(Candidates, Intent.m)

\* A standard call with one candidate has captured an opposing piece.
C2_Witness ==
    /\ StandardCall /\ Cardinality(Candidates) = 1 /\ Returned
    /\ get_piece_at(PiecesOf(Receiver), Intent.m.dest) # None
    /\ Cardinality(DOMAIN PiecesOf(last.board))
         = Cardinality(DOMAIN PiecesOf(Receiver)) - 1

C3_Holds(cands) ==
    /\ cands = {} => NoMatchingPiece
    /\ Cardinality(cands) > 1 => AmbiguousMove
    /\ Returned => Cardinality(cands) = 1

(* C3: a standard call fails with NoMatchingPiece when the candidate set is *)
(* empty, fails with AmbiguousMove when it has more than one element, and   *)
(* returns a board only when it has exactly one.                            *)
C3_CandidateCount ==
    StandardCall => C3_Holds(Candidates)

\* A standard call has failed as ambiguous.
C3_Witness ==
    StandardCall /\ Cardinality(Candidates) > 1 /\ AmbiguousMove

-----------------------------------------------------------------------------
(* Castling, as the properties state it. *)

\* The rank a colour's king and rooks start on.
HomeRank(color) == IF color = Black THEN 0 ELSE 7
RookCorner(color, kingside) == <<IF kingside THEN 7 ELSE 0, HomeRank(color)>>
isMove(m) == "name" \in DOMAIN m

\* Some square strictly between the king's square and the rook's corner is
\* occupied.
PathBlocked(pieces, color, kingside) ==
    \E file \in (IF kingside THEN {5, 6} ELSE {1, 2, 3}) :
        get_piece_at(pieces, <<file, HomeRank(color)>>) # None

\* Some square of the king's path is generated by an opposing piece.
PathAttacked(pieces, color, kingside) ==
    \E file \in (IF kingside THEN 4..7 ELSE 0..4), pos \in DOMAIN pieces :
        /\ pieces[pos].color = opponent(color)
        /\ <<file, HomeRank(color)>> \in possible_moves(pieces[pos], pos, pieces)

\* The history holds a King move of color, or a move to the rook's corner.
Disqualified(history, color, kingside) ==
    \E k \in DOMAIN history :
        /\ isMove(history[k][2])
        /\ \/ history[k][1] = color /\ history[k][2].name = "K"
           \/ history[k][2].dest = RookCorner(color, kingside)

(* C4: on the board of test_castling (Black King on (4,0), Black Rooks on   *)
(* (0,0) and (7,0), no history) move(Black, "0-0") returns a board with the *)
(* King on (2,0) and a Rook on (3,0), and move(Black, "0-0-0") one with the *)
(* King on (6,0) and a Rook on (5,0).                                       *)
C4_TestCastling ==
    ( /\ Called /\ last.recv = 1 /\ last.color = Black
      /\ PiecesOf(boards[1]) = Dict(CastlingPieces)
      /\ HistoryOf(boards[1]) = <<>> ) =>
        /\ last.text = <<"0", "-", "0">> =>
              /\ Returned
              /\ get_piece_at(PiecesOf(last.board), <<2, 0>>) = King(Black)
              /\ get_piece_at(PiecesOf(last.board), <<3, 0>>) = Rook(Black)
        /\ last.text = <<"0", "-", "0", "-", "0">> =>
              /\ Returned
              /\ get_piece_at(PiecesOf(last.board), <<6, 0>>) = King(Black)
              /\ get_piece_at(PiecesOf(last.board), <<5, 0>>) = Rook(Black)

(* C5: for each colour and side, on the board holding only that colour's    *)
(* King on (4, r) and its Rook on the corner of its home rank r (0 for      *)
(* Black, 7 for White), with no history, the castle returns the board with  *)
(* the King on file 6 and the Rook on file 5 (kingside), or the King on     *)
(* file 2 and the Rook on file 3 (queenside), nothing else, and the Castle  *)
(* appended to the history.                                                 *)
C5_CastleOnHomeRank ==
    \A c \in Color, kingside \in BOOLEAN :
        ( /\ CastleCall /\ last.recv = 1 /\ last.color = c
          /\ Intent.m.kingside = kingside
          /\ PiecesOf(boards[1]) = KingAndRook(c, kingside)
          /\ HistoryOf(boards[1]) = <<>> ) =>
            /\ Returned
            /\ PiecesOf(last.board) =
                 Dict({ <<<<IF kingside THEN 6 ELSE 2, HomeRank(c)>>, King(c)>>,
                        <<<<IF kingside THEN 5 ELSE 3, HomeRank(c)>>, Rook(c)>> })
            /\ HistoryOf(last.board) = << <<c, Castle(kingside)>> >>

(* C6: a castle attempt by a colour on a board whose history holds a King   *)
(* move of that colour, or a move to the corner of the rook of that side,   *)
(* is refused with IllegalCastle.  Histories only grow, so this speaks of   *)
(* every board derived from one with such a history.                        *)
C6_DisqualifiedForever ==
    (CastleCall /\ Disqualified(HistoryOf(Receiver), last.color, Intent.m.kingside))
        => IllegalCastle

(* C7: a castle attempt is refused with IllegalCastle whenever a square     *)
(* strictly between king and rook on the home rank is occupied, or a square *)
(* of the king's path is in the move set of an opposing piece.              *)
C7_BlockedOrAttackedRefused ==
    ( /\ CastleCall
      /\ \/ PathBlocked(PiecesOf(Receiver), last.color, Intent.m.kingside)
         \/ PathAttacked(PiecesOf(Receiver), last.color, Intent.m.kingside) )
        => IllegalCastle

\* A castle was refused on a board where only the attack stands against it:
\* king and rook are in place, nothing is between them, the history is clean.
C7_Witness ==
    /\ CastleCall /\ IllegalCastle
    /\ PathAttacked(PiecesOf(Receiver), last.color, Intent.m.kingside)
    /\ ~PathBlocked(PiecesOf(Receiver), last.color, Intent.m.kingside)
    /\ ~Disqualified(HistoryOf(Receiver), last.color, Intent.m.kingside)
    /\ get_piece_at(PiecesOf(Receiver), <<4, HomeRank(last.color)>>)
         = King(last.color)
    /\ get_piece_at(PiecesOf(Receiver), RookCorner(last.color, Intent.m.kingside))
         = Rook(last.color)

(* C8: every call of move returns a board or fails with one of the four     *)
(* errors of the taxonomy (InvalidNotation, NoMatchingPiece, AmbiguousMove, *)
(* IllegalCastle).                                                          *)
C8_OnlyTaxonomyErrors ==
    Called =>
        \/ Returned
        \/ InvalidNotation \/ NoMatchingPiece \/ AmbiguousMove \/ IllegalCastle

-----------------------------------------------------------------------------
(* Move generation, as the properties state it. *)

\* The piece whose moves were generated last, and the board it stands on.
Generated == gen # NoGen
GenBoard == PiecesOf(boards[1])
GenPiece == GenBoard[gen.position]

Orthogonal == { <<1, 0>>, <<-1, 0>>, <<0, 1>>, <<0, -1>> }
Diagonal == { <<1, 1>>, <<1, -1>>, <<-1, 1>>, <<-1, -1>> }
RaysOf(name) ==
    CASE name = "R" -> Orthogonal
      [] name = "B" -> Diagonal
      [] name = "Q" -> Orthogonal \cup Diagonal
      [] OTHER -> {}

\* The square k steps from position along direction d.
Step(position, d, k) == <<position[1] + k * d[1], position[2] + k * d[2]>>

(* C9: every square a piece generates has file and rank in 0..7 and is not  *)
(* the square the piece stands on.                                          *)
C9_GeneratedInBounds ==
    Generated => \A m \in gen.moves : m \in Squares /\ m # gen.position

(* C10: along each ray of a Rook, Bishop or Queen the generated set holds   *)
(* exactly the empty squares before the first occupied square and that      *)
(* square if it holds an opposing piece, nothing beyond it, and nothing     *)
(* that is on no ray.                                                       *)
C10_SliderStopsAtFirstPiece ==
    (Generated /\ GenPiece.name \in {"R", "B", "Q"}) =>
        /\ \A d \in RaysOf(GenPiece.name), k \in 1..7 :
              Step(gen.position, d, k) \in Squares =>
                ( Step(gen.position, d, k) \in gen.moves
                  <=> /\ \A j \in 1..(k - 1) :
                            get_piece_at(GenBoard, Step(gen.position, d, j)) = None
                      /\ \/ get_piece_at(GenBoard, Step(gen.position, d, k)) = None
                         \/ get_piece_at(GenBoard, Step(gen.position, d, k)).color
                              = opponent(GenPiece.color) )
        /\ \A m \in gen.moves :
              \E d \in RaysOf(GenPiece.name), k \in 1..7 :
                  m = Step(gen.position, d, k)

\* A slider's ray meets an opposing piece and then an own piece two squares
\* on: the first is generated, the square behind it and the second are not.
C10_Witness ==
    /\ Generated /\ GenPiece.name \in {"R", "B", "Q"}
    /\ \E d \in RaysOf(GenPiece.name), k \in 2..5 :
          /\ get_piece_at(GenBoard, Step(gen.position, d, k - 1)) = None
          /\ get_piece_at(GenBoard, Step(gen.position, d, k)).color
               = opponent(GenPiece.color)
          /\ get_piece_at(GenBoard, Step(gen.position, d, k + 1)) = None
          /\ get_piece_at(GenBoard, Step(gen.position, d, k + 2)).color
               = GenPiece.color
          /\ Step(gen.position, d, k - 1) \in gen.moves
          /\ Step(gen.position, d, k) \in gen.moves
          /\ Step(gen.position, d, k + 1) \notin gen.moves
          /\ Step(gen.position, d, k + 2) \notin gen.moves

-----------------------------------------------------------------------------
(* Pawns, as the properties state them. *)

\* The direction a colour's pawns advance in, and the rank they start on.
Forward(color) == IF color = Black THEN 1 ELSE -1
StartRank(color) == IF color = Black THEN 1 ELSE 6
Ahead(position, color, k) == <<position[1], position[2] + k * Forward(color)>>
DiagonalsAhead(position, color) ==
    { <<position[1] + 1, position[2] + Forward(color)>>,
      <<position[1] - 1, position[2] + Forward(color)>> }
GenPawn == Generated /\ GenPiece.name = "P"

(* C11: the move set of a pawn holds the square two steps forward only when *)
(* the pawn stands on the starting rank of its own colour (1 for Black, 6   *)
(* for White) and that square is unoccupied.                                *)
C11_TwoStepOnlyFromStartOntoEmpty ==
    ( GenPawn /\ Ahead(gen.position, GenPiece.color, 2) \in gen.moves ) =>
        /\ gen.position[2] = StartRank(GenPiece.color)
        /\ get_piece_at(GenBoard, Ahead(gen.position, GenPiece.color, 2)) = None

(* C12: a pawn whose square one step forward is occupied, by either colour, *)
(* and which has no opposing piece on a diagonally-forward square, has an   *)
(* empty move set.                                                          *)
C12_BlockedPawnHasNoMoves ==
    ( /\ GenPawn
      /\ get_piece_at(GenBoard, Ahead(gen.position, GenPiece.color, 1)) # None
      /\ \A sq \in DiagonalsAhead(gen.position, GenPiece.color) :
            get_piece_at(GenBoard, sq) = None
            \/ get_piece_at(GenBoard, sq).color = GenPiece.color )
        => gen.moves = {}

\* A pawn on its starting rank is blocked by a piece in front of it, has an
\* own piece on a diagonal, a free square two steps ahead, and no move.
C12_Witness ==
    /\ GenPawn /\ gen.position[2] = StartRank(GenPiece.color)
    /\ get_piece_at(GenBoard, Ahead(gen.position, GenPiece.color, 1)) # None
    /\ get_piece_at(GenBoard, Ahead(gen.position, GenPiece.color, 2)) = None
    /\ \E sq \in DiagonalsAhead(gen.position, GenPiece.color) :
          get_piece_at(GenBoard, sq).color = GenPiece.color
    /\ gen.moves = {}

-----------------------------------------------------------------------------
(* The default board, as the properties state it. *)

\* The first board was built from an empty dict of pieces.
BuiltWithNoPieces == DOMAIN dicts[1] = {}

CountOf(pieces, piece) ==
    Cardinality({ pos \in DOMAIN pieces : pieces[pos] = piece })
StandardCounts == [P |-> 8, R |-> 2, N |-> 2, B |-> 2, Q |-> 1, K |-> 1]

StandardLayout(pieces) ==
    /\ Cardinality(DOMAIN pieces) = 32
    /\ \A c \in Color, n \in PieceNames :
          CountOf(pieces, Piece(n, c)) = StandardCounts[n]
    /\ \A pos \in DOMAIN pieces :
          /\ pieces[pos].color = Black => pos[2] \in {0, 1}
          /\ pieces[pos].color = White => pos[2] \in {6, 7}
    /\ \A x \in 0..7 :
          /\ get_piece_at(pieces, <<x, 1>>) = Pawn(Black)
          /\ get_piece_at(pieces, <<x, 6>>) = Pawn(White)

(* C13: the board built with no initial pieces holds exactly 32 pieces, 16  *)
(* of each colour (8 Pawns, 2 Rooks, 2 Knights, 2 Bishops, 1 Queen, 1 King), *)
(* every Black piece on ranks 0-1 and every White piece on ranks 6-7, pawns *)
(* on every square of ranks 1 and 6, and has an empty history.              *)
C13_DefaultIsStandardLayout ==
    BuiltWithNoPieces =>
        /\ StandardLayout(PiecesOf(boards[1]))
        /\ HistoryOf(boards[1]) = <<>>

-----------------------------------------------------------------------------
(* C14: the history of every board the caller holds is as long as the      *)
(* number of calls that succeeded on the way to it from the initial board;  *)
(* a call that returns a board returns one whose history is the receiver's  *)
(* history, unchanged and in order, with one entry added, for a standard    *)
(* move and for a castle alike; a call that fails produces no board.        *)
C14_HistoryCountsSuccesses ==
    /\ \A i \in DOMAIN boards : Len(HistoryOf(boards[i])) = applied[i]
    /\ Returned =>
          /\ Len(HistoryOf(last.board)) = Len(HistoryOf(Receiver)) + 1
          /\ SubSeq(HistoryOf(last.board), 1, Len(HistoryOf(Receiver)))
                = HistoryOf(Receiver)
    /\ (Called /\ ~Returned) => last.board = NoBoard

\* A board reached by a castle and a standard move holds both entries, and
\* a call on it has just failed.
C14_Witness ==
    /\ Called /\ ~Returned
    /\ applied[last.recv] = 2
    /\ Len(HistoryOf(Receiver)) = 2
    /\ isCastle(HistoryOf(Receiver)[1][2])
    /\ isMove(HistoryOf(Receiver)[2][2])

-----------------------------------------------------------------------------
(* Knights and kings, as the properties state them. *)

KnightOffsets ==
    { <<1, 2>>, <<2, 1>>, <<2, -1>>, <<1, -2>>,
      <<-1, -2>>, <<-2, -1>>, <<-2, 1>>, <<-1, 2>> }
KingOffsets == Orthogonal \cup Diagonal
OffsetsOf(name) == IF name = "N" THEN KnightOffsets ELSE KingOffsets

\* The squares of the board at the fixed offsets of a piece.
Targets(name, position) ==
    { Step(position, d, 1) : d \in OffsetsOf(name) } \cap Squares

(* C15: no square in the move set of a Knight or a King holds a piece of    *)
(* its own colour, and every square of the board at one of its fixed        *)
(* offsets that is empty or holds an opposing piece is in the move set.     *)
C15_KnightKingAvoidOwnColour ==
    (Generated /\ GenPiece.name \in {"N", "K"}) =>
        /\ \A m \in gen.moves :
              get_piece_at(GenBoard, m).color # GenPiece.color
        /\ \A sq \in Targets(GenPiece.name, gen.position) :
              ( \/ get_piece_at(GenBoard, sq) = None
                \/ get_piece_at(GenBoard, sq).color = opponent(GenPiece.color) )
                => sq \in gen.moves

\* A Knight has an own piece on one of its squares, which is not generated,
\* and an opposing piece on another, which is.
C15_Witness ==
    /\ Generated /\ GenPiece.name = "N"
    /\ \E own, opp \in Targets("N", gen.position) :
          /\ get_piece_at(GenBoard, own).color = GenPiece.color
          /\ get_piece_at(GenBoard, opp).color = opponent(GenPiece.color)
          /\ own \notin gen.moves
          /\ opp \in gen.moves

-----------------------------------------------------------------------------
(* The move notation, as the properties state it. *)

FileLetters == <<"a", "b", "c", "d", "e", "f", "g", "h">>
RankDigits == <<"1", "2", "3", "4", "5", "6", "7", "8">>

\* [piece letter][x][file][rank], the letter absent for a Pawn.
StandardText(name, capture, f, r) ==
    (IF name = "P" THEN <<>> ELSE <<name>>)
    \o (IF capture THEN <<"x">> ELSE <<>>)
    \o <<FileLetters[f], RankDigits[r]>>

WellFormedTexts ==
    CastleTexts
    \cup { StandardText(n, x, f, r) :
             n \in PieceNames, x \in BOOLEAN, f \in 1..8, r \in 1..8 }

Parsed == parse.called

(* C16: the parser maps "0-0" to Castle(kingside = true) and "0-0-0" to     *)
(* Castle(kingside = false); for a standard text it yields the kind of the  *)
(* piece letter (Pawn when absent), whether an x is there or not, and the   *)
(* destination (f, r), f the index of the file letter in a..h counted from  *)
(* 0 and r equal to 8 minus the rank digit.                                 *)
C16_ParserMapping ==
    Parsed =>
        /\ parse.text = <<"0", "-", "0">> =>
              parse.result = [ok |-> TRUE, m |-> Castle(TRUE)]
        /\ parse.text = <<"0", "-", "0", "-", "0">> =>
              parse.result = [ok |-> TRUE, m |-> Castle(FALSE)]
        /\ parse.text \in WellFormedTexts =>
              \A n \in PieceNames, x \in BOOLEAN, f \in 1..8, r \in 1..8 :
                parse.text = StandardText(n, x, f, r) =>
                  parse.result = [ok |-> TRUE, m |-> Move(n, <<f - 1, 8 - r>>)]

\* "Rxa2" was parsed to a Rook move to (0, 6).
C16_Witness ==
    /\ Parsed
    /\ parse.text = <<"R", "x", "a", "2">>
    /\ parse.result = [ok |-> TRUE, m |-> Move("R", <<0, 6>>)]

(* C17: a call of move with a text that is neither "0-0" nor "0-0-0" nor    *)
(* exactly [Q|R|N|B|K]?[x]?[a-h][1-8], texts that start with a valid move   *)
(* and go on among them, fails with InvalidNotation and produces no board.  *)
C17_MalformedTextRejected ==
    (Called /\ last.text \notin WellFormedTexts) =>
        InvalidNotation /\ last.board = NoBoard

-----------------------------------------------------------------------------
(* Castling and the two colours' histories, as the properties state them. *)

\* The king and the rook of a side stand where they started.
KingAndRookInPlace(pieces, color, kingside) ==
    /\ get_piece_at(pieces, <<4, HomeRank(color)>>) = King(color)
    /\ get_piece_at(pieces, RookCorner(color, kingside)) = Rook(color)

\* The history holds a King move of the given colour.
KingMoved(history, color) ==
    \E k \in DOMAIN history :
        /\ history[k][1] = color
        /\ isMove(history[k][2])
        /\ history[k][2].name = "K"

\* The history holds a castle of the given colour.
HasCastled(history, color) ==
    \E k \in DOMAIN history :
        history[k][1] = color /\ isCastle(history[k][2])

(* C18: a King move recorded for the opposing colour does not take away a   *)
(* colour's castle: with the colour's king and rook in place and not moved  *)
(* (no King move and no castle of that colour in the history, no move to    *)
(* the rook's corner), the squares between them empty and the king's path   *)
(* not attacked, the castle returns a board although the opponent has moved *)
(* its king.                                                                *)
C18_OpponentKingMoveIrrelevant ==
    ( /\ CastleCall
      /\ KingAndRookInPlace(PiecesOf(Receiver), last.color, Intent.m.kingside)
      /\ ~PathBlocked(PiecesOf(Receiver), last.color, Intent.m.kingside)
      /\ ~PathAttacked(PiecesOf(Receiver), last.color, Intent.m.kingside)
      /\ ~Disqualified(HistoryOf(Receiver), last.color, Intent.m.kingside)
      /\ ~HasCastled(HistoryOf(Receiver), last.color)
      /\ KingMoved(HistoryOf(Receiver), opponent(last.color)) )
        => Returned

(* C19: a castle returns a board only when a King of the castling colour   *)
(* stands on (4, rank) and a Rook of that colour on the corner of the side, *)
(* and the board returned holds a King of that colour on the king's         *)
(* destination and a Rook of that colour on the rook's; when (4, rank) is   *)
(* empty or holds any other piece the castle fails with IllegalCastle.      *)
C19_CastleNeedsKingAndRook ==
    CastleCall =>
        /\ Returned =>
              /\ KingAndRookInPlace(PiecesOf(Receiver), last.color,
                                    Intent.m.kingside)
              /\ get_piece_at(PiecesOf(last.board),
                              <<IF Intent.m.kingside THEN 6 ELSE 2,
                                HomeRank(last.color)>>) = King(last.color)
              /\ get_piece_at(PiecesOf(last.board),
                              <<IF Intent.m.kingside THEN 5 ELSE 3,
                                HomeRank(last.color)>>) = Rook(last.color)
        /\ get_piece_at(PiecesOf(Receiver), <<4, HomeRank(last.color)>>)
              # King(last.color) => IllegalCastle

-----------------------------------------------------------------------------
(* Piece counts, as the properties state them. *)

CountColor(pieces, color) ==
    Cardinality({ pos \in DOMAIN pieces : pieces[pos].color = color })

\* The square the call that just returned has moved a piece to, when the
\* call was a standard move.
Destination == Intent.m.dest

(* C20: a call of move that returns a board removes no piece of the mover:  *)
(* the board returned has one piece fewer than the receiver exactly when    *)
(* the call was a standard move to a square holding an opposing piece, and  *)
(* as many otherwise; the number of the mover's pieces is the same.         *)
C20_NoOwnPieceRemoved ==
    Returned =>
        /\ Cardinality(DOMAIN PiecesOf(last.board)) =
              Cardinality(DOMAIN PiecesOf(Receiver))
              - (IF /\ StandardCall
                    /\ get_piece_at(PiecesOf(Receiver), Destination).color
                          = opponent(last.color)
                 THEN 1 ELSE 0)
        /\ CountColor(PiecesOf(last.board), last.color)
              = CountColor(PiecesOf(Receiver), last.color)

====
